---------------------------- MODULE Spec2Model ----------------------------
(***************************************************************************)
(* State-machine model of ledat/datfile.py (class DATFile): the per-       *)
(* universe pixel buffers, the class-level header registry, header         *)
(* resolution, the grouped frame encoder and the file writer.              *)
(*                                                                         *)
(* Conventions.  Python indices are 0-based, TLA+ sequences 1-based: a     *)
(* Python x[i] is written x[i + 1].  A numpy array is a record             *)
(* [shape, data] so that an array with zero frames keeps its pixel         *)
(* dimension, as numpy's (0, n, 3) does.  A bytes object is a sequence of  *)
(* numbers in 0..255.                                                      *)
(***************************************************************************)
EXTENDS Integers, Sequences, FiniteSets, TLC

VARIABLES
    universes,      \* self._universes: LED count per universe
    num_frames,     \* self._num_frames
    pixel_data,     \* self._pixel_data: one (frames, leds, 3) array per universe
    template_file,  \* self.template_file, fixed by the constructor
    KNOWN_HEADERS,  \* DATFile.KNOWN_HEADERS: insertion-ordered <<key, bytes>> pairs
    dat,            \* the output .dat file: [written, bytes]
    txt,            \* the output .txt summary: a sequence of lines
    ret             \* outcome of the last call: [op, exc, val]

vars == <<universes, num_frames, pixel_data, template_file, KNOWN_HEADERS,
          dat, txt, ret>>

-----------------------------------------------------------------------------
(* Module constants of datfile.py *)

PORTS_PER_CONTROLLER == 8

HEADER_SIZE == 512

MAGIC == <<0, 0, 72, 67>>

\* [round(pow(i / 255.0, 2.2) * 255.0) for i in range(256)], as uint8
GAMMA_LUT ==
 << 0, 0, 0, 0, 0, 0, 0, 0, 0, 0, 0, 0, 0, 0, 0, 1,
    1, 1, 1, 1, 1, 1, 1, 1, 1, 2, 2, 2, 2, 2, 2, 2,
    3, 3, 3, 3, 3, 4, 4, 4, 4, 5, 5, 5, 5, 6, 6, 6,
    6, 7, 7, 7, 8, 8, 8, 9, 9, 9, 10, 10, 11, 11, 11, 12,
    12, 13, 13, 13, 14, 14, 15, 15, 16, 16, 17, 17, 18, 18, 19, 19,
    20, 20, 21, 22, 22, 23, 23, 24, 25, 25, 26, 26, 27, 28, 28, 29,
    30, 30, 31, 32, 33, 33, 34, 35, 35, 36, 37, 38, 39, 39, 40, 41,
    42, 43, 43, 44, 45, 46, 47, 48, 49, 49, 50, 51, 52, 53, 54, 55,
    56, 57, 58, 59, 60, 61, 62, 63, 64, 65, 66, 67, 68, 69, 70, 71,
    73, 74, 75, 76, 77, 78, 79, 81, 82, 83, 84, 85, 87, 88, 89, 90,
    91, 93, 94, 95, 97, 98, 99, 100, 102, 103, 105, 106, 107, 109, 110, 111,
    113, 114, 116, 117, 119, 120, 121, 123, 124, 126, 127, 129, 130, 132, 133, 135,
    137, 138, 140, 141, 143, 145, 146, 148, 149, 151, 153, 154, 156, 158, 159, 161,
    163, 165, 166, 168, 170, 172, 173, 175, 177, 179, 181, 182, 184, 186, 188, 190,
    192, 194, 196, 197, 199, 201, 203, 205, 207, 209, 211, 213, 215, 217, 219, 221,
    223, 225, 227, 229, 231, 234, 236, 238, 240, 242, 244, 246, 248, 251, 253, 255 >>

-----------------------------------------------------------------------------
(* Python and numpy helpers *)

Min(a, b) == IF a < b THEN a ELSE b

\* math.ceil(a / b) for a >= 0, b > 0
CeilDiv(a, b) == (a + b - 1) \div b

\* the outcome of a call of method op that returns v (a tuple; <<>> for None)
Return(op, v) == [op |-> op, exc |-> "none", val |-> v]

\* the outcome of a call of method op that raises exception kind e
Raise(op, e) == [op |-> op, exc |-> e, val |-> <<>>]

\* np.zeros((n, num_leds, 3), dtype=np.uint8)
Zeros(n, num_leds) ==
    [shape |-> <<n, num_leds, 3>>,
     data  |-> [f \in 1..n |-> [p \in 1..num_leds |-> <<0, 0, 0>>]]]

\* seq[:n]
Prefix(seq, n) == SubSeq(seq, 1, Min(Len(seq), n))

\* bytes(n): n zero bytes
ZeroBytes(n) == [i \in 1..n |-> 0]

\* sum(self._universes[:k])
RECURSIVE SumTo(_, _)
SumTo(seq, k) == IF k = 0 THEN 0 ELSE seq[k] + SumTo(seq, k - 1)

\* max(self._universes[:k]), 0 for the empty list
RECURSIVE MaxTo(_, _)
MaxTo(seq, k) ==
    IF k = 0 THEN 0
    ELSE LET m == MaxTo(seq, k - 1) IN IF seq[k] > m THEN seq[k] ELSE m

-----------------------------------------------------------------------------
(* Properties of DATFile *)

num_universes == Len(universes)

total_pixels == SumTo(universes, Len(universes))

max_leds_per_port == MaxTo(universes, Len(universes))

controller_count ==
    IF Len(universes) = 0 THEN 1
    ELSE CeilDiv(Len(universes), PORTS_PER_CONTROLLER)

group_size == PORTS_PER_CONTROLLER * controller_count

-----------------------------------------------------------------------------
(* Building the animation *)

\* NewBuffer allocating no frames whatever the current frame count
NewBufferNoFrames(num_leds) == Zeros(0, num_leds)

\* the buffer add_universe allocates for the new universe
NewBuffer(num_leds) ==
    IF num_frames > 0 THEN Zeros(num_frames, num_leds) ELSE Zeros(0, num_leds)

add_universe(num_leds) ==
    IF num_leds <= 0
    THEN /\ ret' = Raise("add_universe", "ValueError")
         /\ UNCHANGED <<universes, num_frames, pixel_data>>
    ELSE /\ universes' = Append(universes, num_leds)
         /\ pixel_data' = Append(pixel_data, NewBuffer(num_leds))
         /\ ret' = Return("add_universe", <<Len(universes)>>)
         /\ UNCHANGED num_frames

\* the loop of set_num_frames: every buffer reallocated with n frames, the
\* first min(old_n, n) frames copied
Resized(n) ==
    [i \in 1..Len(universes) |->
        LET old_data == pixel_data[i]
            copy_frames == Min(num_frames, n)
        IN [shape |-> <<n, universes[i], 3>>,
            data  |-> [f \in 1..n |->
                         IF f <= copy_frames THEN old_data.data[f]
                         ELSE [p \in 1..universes[i] |-> <<0, 0, 0>>]]]]

set_num_frames(n) ==
    IF n <= 0
    THEN /\ ret' = Raise("set_num_frames", "ValueError")
         /\ UNCHANGED <<universes, num_frames, pixel_data>>
    ELSE /\ num_frames' = n
         /\ pixel_data' = Resized(n)
         /\ ret' = Return("set_num_frames", <<>>)
         /\ UNCHANGED universes

\* check_indices without the lower bound on the pixel index
check_indices_upper_only(universe, frame, pixel) ==
    IF universe < 0 \/ universe >= Len(universes) THEN "IndexError"
    ELSE IF frame < 0 \/ frame >= num_frames THEN "IndexError"
    ELSE IF pixel >= universes[universe + 1] THEN "IndexError"
    ELSE "none"

\* _check_indices: the exception it raises, "none" when it returns
check_indices(universe, frame, pixel) ==
    IF universe < 0 \/ universe >= Len(universes) THEN "IndexError"
    ELSE IF frame < 0 \/ frame >= num_frames THEN "IndexError"
    ELSE IF pixel < 0 \/ pixel >= universes[universe + 1] THEN "IndexError"
    ELSE "none"

\* numpy's index normalisation on an axis of length n: a negative index
\* counts from the end
Wrap(i, n) == IF i < 0 THEN i + n ELSE i

set_pixel(universe, frame, pixel, r, g, b) ==
    LET e == check_indices(universe, frame, pixel) IN
    IF e # "none"
    THEN /\ ret' = Raise("set_pixel", e)
         /\ UNCHANGED <<universes, num_frames, pixel_data>>
    ELSE LET u == Wrap(universe, Len(universes)) + 1
             f == Wrap(frame, num_frames) + 1
             p == Wrap(pixel, universes[u]) + 1
         IN /\ pixel_data' = [pixel_data EXCEPT ![u].data[f][p] = <<r, g, b>>]
            /\ ret' = Return("set_pixel", <<>>)
            /\ UNCHANGED <<universes, num_frames>>

get_pixel(universe, frame, pixel) ==
    LET e == check_indices(universe, frame, pixel) IN
    /\ UNCHANGED <<universes, num_frames, pixel_data>>
    /\ IF e # "none"
       THEN ret' = Raise("get_pixel", e)
       ELSE LET u == Wrap(universe, Len(universes)) + 1
                f == Wrap(frame, num_frames) + 1
                p == Wrap(pixel, universes[u]) + 1
            IN ret' = Return("get_pixel", pixel_data[u].data[f][p])

\* np.atleast_3d: (N,) -> (1, N, 1); (M, N) -> (M, N, 1); 3-D unchanged
atleast_3d(a) ==
    IF Len(a.shape) = 1
    THEN [shape |-> <<1, a.shape[1], 1>>,
          data  |-> << [j \in 1..a.shape[1] |-> <<a.data[j]>>] >>]
    ELSE IF Len(a.shape) = 2
    THEN [shape |-> <<a.shape[1], a.shape[2], 1>>,
          data  |-> [i \in 1..a.shape[1] |->
                       [j \in 1..a.shape[2] |-> <<a.data[i][j]>>]]]
    ELSE a

\* ndarray.transpose(1, 0, 2)
transpose102(a) ==
    [shape |-> <<a.shape[2], a.shape[1], a.shape[3]>>,
     data  |-> [i \in 1..a.shape[2] |->
                  [j \in 1..a.shape[1] |->
                     [k \in 1..a.shape[3] |-> a.data[j][i][k]]]]]

\* lines 203-207 of append: the array as append stores it
Normalized(frames) ==
    LET f3 == atleast_3d(frames) IN
    IF f3.shape[2] = 3 /\ f3.shape[3] # 3 THEN transpose102(f3) ELSE f3

\* numpy broadcasting of a (k, P, C) value into a (k, L, 3) slice
Broadcastable(shape, num_leds) ==
    /\ shape[2] = num_leds \/ shape[2] = 1
    /\ shape[3] = 3 \/ shape[3] = 1

\* element (i, p, c), 1-based, of fr broadcast to the slice's shape, as uint8
BroadcastAt(fr, i, p, c) ==
    fr.data[i][IF fr.shape[2] = 1 THEN 1 ELSE p]
              [IF fr.shape[3] = 1 THEN 1 ELSE c] % 256

append(frames, universe) ==
    IF universe < 0 \/ universe >= Len(universes)
    THEN /\ ret' = Raise("append", "ValueError")
         /\ UNCHANGED <<universes, num_frames, pixel_data>>
    ELSE LET fr      == Normalized(frames)
             num_new == fr.shape[1]
             needed  == num_frames + num_new
             grown   == needed > num_frames
             nf      == IF grown THEN needed ELSE num_frames
             pd      == IF grown THEN Resized(needed) ELSE pixel_data
             start   == nf - num_new
             u       == universe + 1
         IN /\ UNCHANGED universes
            /\ num_frames' = nf
            /\ IF Broadcastable(fr.shape, universes[u])
               THEN /\ pixel_data' =
                         [pd EXCEPT ![u].data =
                            [f \in 1..nf |->
                               IF f > start
                               THEN [p \in 1..universes[u] |->
                                       [c \in 1..3 |->
                                          BroadcastAt(fr, f - start, p, c)]]
                               ELSE pd[u].data[f]]]
                    /\ ret' = Return("append", <<"self">>)
               ELSE /\ pixel_data' = pd
                    /\ ret' = Raise("append", "ValueError")

clear ==
    /\ num_frames' = 0
    /\ pixel_data' = [i \in 1..Len(universes) |-> Zeros(0, universes[i])]
    /\ ret' = Return("clear", <<"self">>)
    /\ UNCHANGED universes

-----------------------------------------------------------------------------
(* The file system the program reads: existing .dat files by path *)

\* n bytes, byte i (0-based) holding (a * i + b) mod 256
Pattern(n, a, b) == [i \in 1..n |-> (a * (i - 1) + b) % 256]

Files ==
    [p \in {"good.dat", "short.dat", "tiny.dat"} |->
        CASE p = "good.dat"  -> Pattern(600, 3, 7)
          [] p = "short.dat" -> Pattern(100, 5, 1)
          [] p = "tiny.dat"  -> Pattern(10, 1, 9)]

\* open(path, "rb").read(HEADER_SIZE)
ReadHeader(path) == Prefix(Files[path], HEADER_SIZE)

-----------------------------------------------------------------------------
(* Class-level header registry *)

\* position of key in the dict, 0 when absent
KeyIndex(key) ==
    IF \E i \in 1..Len(KNOWN_HEADERS) : KNOWN_HEADERS[i][1] = key
    THEN CHOOSE i \in 1..Len(KNOWN_HEADERS) : KNOWN_HEADERS[i][1] = key
    ELSE 0

\* cls.KNOWN_HEADERS[key] = value: an existing key keeps its position
DictSet(key, value) ==
    IF KeyIndex(key) = 0
    THEN Append(KNOWN_HEADERS, <<key, value>>)
    ELSE [KNOWN_HEADERS EXCEPT ![KeyIndex(key)] = <<key, value>>]

\* the value register_header stores
Stored(header) == Prefix(header, HEADER_SIZE)

register_header(num_slaves, pixels_per_slave, header, ic_type) ==
    /\ KNOWN_HEADERS' =
           DictSet(<<num_slaves, pixels_per_slave, ic_type>>, Stored(header))
    /\ ret' = Return("register_header", <<>>)

load_header_from_file(dat_file, num_slaves, pixels_per_slave, ic_type) ==
    IF dat_file \notin DOMAIN Files
    THEN /\ ret' = Raise("load_header_from_file", "FileNotFoundError")
         /\ UNCHANGED KNOWN_HEADERS
    ELSE LET header == ReadHeader(dat_file) IN
         /\ KNOWN_HEADERS' =
                DictSet(<<num_slaves, pixels_per_slave, ic_type>>, Stored(header))
         /\ ret' = Return("load_header_from_file", <<header>>)

-----------------------------------------------------------------------------
(* Header resolution *)

\* PatchCount storing the count high byte first
PatchCountBigEndian(hdr, ctrl_count) ==
    [hdr EXCEPT ![17] = (ctrl_count \div 256) % 256, ![18] = ctrl_count % 256]

\* hdr[16] = ctrl_count & 0xFF; hdr[17] = (ctrl_count >> 8) & 0xFF
PatchCount(hdr, ctrl_count) ==
    [hdr EXCEPT ![17] = ctrl_count % 256, ![18] = (ctrl_count \div 256) % 256]

\* index of the first registry entry whose key[0] equals num_universes, 0 if none
FirstMatch ==
    LET hits == {i \in 1..Len(KNOWN_HEADERS) : KNOWN_HEADERS[i][1][1] = num_universes}
    IN IF hits = {} THEN 0 ELSE CHOOSE i \in hits : \A j \in hits : i <= j

\* the synthesized header, before the controller count is patched in
DefaultBlock ==
    MAGIC
    \o <<64, 64, 10, 96, 64, 74, 10, 96, 4, 8, 80, 50>>
    \o <<0, 0>>
    \o <<179, 47, 118, 69, 40, 2, 131, 172,
         227, 0, 4, 223, 103, 67, 17, 64,
         8, 160, 175, 175, 245, 233, 180, 251,
         21, 85, 177, 175, 124, 69, 50, 34,
         133, 236, 236, 32, 11, 159, 124, 3,
         23, 64, 14, 224, 185, 143, 131, 49,
         82, 112, 80, 85>>
    \o ZeroBytes(HEADER_SIZE - 70)

\* _build_header: template_header is <<>> for None, <<bytes>> otherwise;
\* the result is [exc, bytes]
build_header(template_header) ==
    LET ctrl_count == controller_count IN
    IF template_header # <<>>
    THEN LET hdr == Prefix(template_header[1], HEADER_SIZE) IN
         IF Len(hdr) < 18
         THEN [exc |-> "IndexError", bytes |-> <<>>]
         ELSE [exc |-> "none", bytes |-> PatchCount(hdr, ctrl_count)]
    ELSE IF FirstMatch # 0
    THEN [exc |-> "none", bytes |-> KNOWN_HEADERS[FirstMatch][2]]
    ELSE [exc |-> "none", bytes |-> PatchCount(DefaultBlock, ctrl_count)]

-----------------------------------------------------------------------------
(* Frame encoding *)

\* BytePos with the ports of a controller in ascending byte order
BytePosForward(uid) ==
    LET ctrl_idx   == uid \div PORTS_PER_CONTROLLER
        local_port == uid % PORTS_PER_CONTROLLER
    IN ctrl_idx * PORTS_PER_CONTROLLER + local_port

\* byte offset of universe uid within a group
BytePos(uid) ==
    LET ctrl_idx   == uid \div PORTS_PER_CONTROLLER
        local_port == uid % PORTS_PER_CONTROLLER
    IN ctrl_idx * PORTS_PER_CONTROLLER + (7 - local_port)

\* the three stores of one LED: B, G, R groups, gamma-corrected
PutLed(buf, rgb, byte_pos, led) ==
    LET grp_size   == group_size
        group_base == led * 3 * grp_size
    IN [buf EXCEPT
          ![group_base + byte_pos + 1]                = GAMMA_LUT[rgb[3] + 1],
          ![group_base + grp_size + byte_pos + 1]     = GAMMA_LUT[rgb[2] + 1],
          ![group_base + 2 * grp_size + byte_pos + 1] = GAMMA_LUT[rgb[1] + 1]]

\* for led in range(led, num_leds)
RECURSIVE LedLoop(_, _, _, _)
LedLoop(buf, uid, frame_idx, led) ==
    IF led >= universes[uid + 1] THEN buf
    ELSE LedLoop(PutLed(buf, pixel_data[uid + 1].data[frame_idx + 1][led + 1],
                        BytePos(uid), led),
                 uid, frame_idx, led + 1)

\* for uid in range(uid, self.num_universes)
RECURSIVE UniverseLoop(_, _, _)
UniverseLoop(buf, frame_idx, uid) ==
    IF uid >= num_universes THEN buf
    ELSE UniverseLoop(LedLoop(buf, uid, frame_idx, 0), frame_idx, uid + 1)

build_frame(frame_idx) ==
    LET frame_bytes == max_leds_per_port * 3 * group_size
    IN UniverseLoop(ZeroBytes(frame_bytes), frame_idx, 0)

-----------------------------------------------------------------------------
(* Writing *)

\* frame_pad of write
FramePad(frame_bytes) == (512 - (frame_bytes % 512)) % 512

\* the loop of write: frames idx.. each followed by its padding
RECURSIVE FrameLoop(_, _)
FrameLoop(idx, frame_pad) ==
    IF idx >= num_frames THEN <<>>
    ELSE build_frame(idx) \o ZeroBytes(frame_pad) \o FrameLoop(idx + 1, frame_pad)

\* the lines write_txt writes
write_txt ==
    << <<"Universes", num_universes>> >>
    \o [i \in 1..Len(universes) |-> <<"Universe", i - 1, universes[i]>>]
    \o << <<"Frames", num_frames>> >>

\* write(filename, template_file): arg is the template_file argument,
\* "" standing for None
write(arg) ==
    LET tpl == IF arg # "" THEN arg ELSE template_file IN
    IF tpl # "" /\ tpl \notin DOMAIN Files
    THEN /\ ret' = Raise("write", "FileNotFoundError")
         /\ UNCHANGED <<dat, txt>>
    ELSE LET template_header == IF tpl # "" THEN <<ReadHeader(tpl)>> ELSE <<>>
             frame_bytes     == max_leds_per_port * 3 * group_size
             frame_pad       == FramePad(frame_bytes)
             header          == build_header(template_header)
         IN IF header.exc # "none"
            THEN \* the output file was opened "wb" and nothing written
                 /\ dat' = [written |-> TRUE, bytes |-> <<>>]
                 /\ ret' = Raise("write", header.exc)
                 /\ UNCHANGED txt
            ELSE LET bytes == header.bytes \o FrameLoop(0, frame_pad) IN
                 /\ dat' = [written |-> TRUE, bytes |-> bytes]
                 /\ txt' = write_txt
                 /\ ret' = Return("write", <<Len(bytes)>>)

-----------------------------------------------------------------------------
(* Construction *)

\* DATFile(template_file) on a fresh process: nothing registered, no output
Constructed(path) ==
    /\ universes = <<>>
    /\ num_frames = 0
    /\ pixel_data = <<>>
    /\ template_file = path
    /\ KNOWN_HEADERS = <<>>
    /\ dat = [written |-> FALSE, bytes |-> <<>>]
    /\ txt = <<>>
    /\ ret = Return("__init__", <<>>)

\* what the buffer operations leave alone
BufferFrame == UNCHANGED <<template_file, KNOWN_HEADERS, dat, txt>>

\* what the registry operations leave alone
RegistryFrame ==
    UNCHANGED <<universes, num_frames, pixel_data, template_file, dat, txt>>

\* what write leaves alone
WriteFrame ==
    UNCHANGED <<universes, num_frames, pixel_data, template_file, KNOWN_HEADERS>>

-----------------------------------------------------------------------------
(* Spec: the pixel buffer model under every buffer operation *)

MaxUniverses == 2

MaxFrames == 3

\* cap on frames * total LEDs, the number of pixels held in memory
MaxCells == 4

\* LED counts offered to add_universe
LedCounts == {-1, 0, 1, 2}

\* the colour set_pixel writes
Colour == <<100, 200, 255>>

\* one row of appended pixel data: the RGB triple of pixel p (1-based)
Row(p) == <<10 * p + 1, 10 * p + 2, 10 * p + 3>>

\* a (P, 3) array: one frame given as a 2-D pixel array
Frame2D(P) == [shape |-> <<P, 3>>, data |-> [p \in 1..P |-> Row(p)]]

\* an (F, P, 3) array: a sequence of F frames
Frames3D(F, P) ==
    [shape |-> <<F, P, 3>>,
     data  |-> [f \in 1..F |-> [p \in 1..P |-> Row(p)]]]

AppendInputs ==
    {Frame2D(P) : P \in 1..2} \cup {Frames3D(F, P) : F \in 0..2, P \in 1..2}

Init == Constructed("")

AddUniverse ==
    \E n \in LedCounts :
        /\ Len(universes) < MaxUniverses
        /\ num_frames * (total_pixels + n) <= MaxCells
        /\ add_universe(n)
        /\ BufferFrame

SetNumFrames ==
    \E n \in -1..MaxFrames :
        /\ n * total_pixels <= MaxCells
        /\ set_num_frames(n)
        /\ BufferFrame

SetPixel ==
    \E u \in -1..Len(universes), f \in -1..num_frames, p \in -1..2 :
        /\ set_pixel(u, f, p, Colour[1], Colour[2], Colour[3])
        /\ BufferFrame

GetPixel ==
    \E u \in -1..Len(universes), f \in -1..num_frames, p \in -1..2 :
        /\ get_pixel(u, f, p)
        /\ BufferFrame

AppendFrames ==
    \E a \in AppendInputs, u \in -1..Len(universes) :
        /\ num_frames + Normalized(a).shape[1] <= MaxFrames
        /\ (num_frames + Normalized(a).shape[1]) * total_pixels <= MaxCells
        /\ append(a, u)
        /\ BufferFrame

Clear ==
    /\ clear
    /\ BufferFrame

Next ==
    \/ AddUniverse
    \/ SetNumFrames
    \/ SetPixel
    \/ GetPixel
    \/ AppendFrames
    \/ Clear

Spec == Init /\ [][Next]_vars

-----------------------------------------------------------------------------
(* SpecHeader: header resolution under registry and template inputs.  The  *)
(* registry and the universe list are built first; once the output file    *)
(* has been written only further writes follow.                            *)

HdrMaxUniverses == 9

MaxRegistry == 2

\* template paths given to the constructor and to write ("" for None)
CtorTemplates == {"", "good.dat"}

WriteTemplates == {"", "good.dat", "short.dat", "tiny.dat"}

\* registry keys: (num_slaves, pixels_per_slave, ic_type)
Keys == {<<n, 400, ic>> : n \in 1..2, ic \in {"QED3110", "WS2811"}}

\* a caller-supplied header blob longer than HEADER_SIZE
LongBlob == Pattern(600, 7, 2)

InitHeader == \E path \in CtorTemplates : Constructed(path)

HdrAddUniverse ==
    /\ ~dat.written
    /\ Len(universes) < HdrMaxUniverses
    /\ add_universe(1)
    /\ BufferFrame

HdrSetNumFrames ==
    /\ ~dat.written
    /\ num_frames = 0
    /\ set_num_frames(1)
    /\ BufferFrame

RegisterHeader ==
    \E key \in Keys :
        /\ ~dat.written
        /\ KeyIndex(key) # 0 \/ Len(KNOWN_HEADERS) < MaxRegistry
        /\ register_header(key[1], key[2], LongBlob, key[3])
        /\ RegistryFrame

LoadHeaderFromFile ==
    \E key \in Keys :
        /\ ~dat.written
        /\ KeyIndex(key) # 0 \/ Len(KNOWN_HEADERS) < MaxRegistry
        /\ load_header_from_file("short.dat", key[1], key[2], key[3])
        /\ RegistryFrame

HdrWrite ==
    \E arg \in WriteTemplates :
        /\ write(arg)
        /\ WriteFrame

NextHeader ==
    \/ HdrAddUniverse
    \/ HdrSetNumFrames
    \/ RegisterHeader
    \/ LoadHeaderFromFile
    \/ HdrWrite

SpecHeader == InitHeader /\ [][NextHeader]_vars

-----------------------------------------------------------------------------
(* SpecWrite: the frame encoder and the writer, no template and an empty   *)
(* registry.  The initial states are DATFile objects on which add_universe *)
(* has been called for each entry of one configuration.                    *)

EncMaxUniverses == 9

\* frame counts offered to set_num_frames
EncFrameCounts == {1, 2}

\* cap on the number of pixels set_pixel has coloured
EncMaxLit == 1

\* n universes of one LED, those at the positions in long of two LEDs
Config(n, long) == [i \in 1..n |-> IF i \in long THEN 2 ELSE 1]

EncConfigs ==
    {<<3>>} \cup UNION {{Config(n, {1}), Config(n, {n})} : n \in 0..EncMaxUniverses}

InitWrite ==
    \E cfg \in EncConfigs :
        /\ universes = cfg
        /\ num_frames = 0
        /\ pixel_data = [i \in 1..Len(cfg) |-> Zeros(0, cfg[i])]
        /\ template_file = ""
        /\ KNOWN_HEADERS = <<>>
        /\ dat = [written |-> FALSE, bytes |-> <<>>]
        /\ txt = <<>>
        /\ ret = Return("__init__", <<>>)

\* the pixels that are not black
Lit ==
    {<<u, f, p>> \in (1..Len(universes)) \X (1..num_frames) \X (1..2) :
        /\ p <= universes[u]
        /\ pixel_data[u].data[f][p] # <<0, 0, 0>>}

EncSetNumFrames ==
    \E n \in EncFrameCounts :
        /\ ~dat.written
        /\ n # num_frames
        /\ set_num_frames(n)
        /\ BufferFrame

EncSetPixel ==
    \E u \in 0..(Len(universes) - 1), f \in 0..(num_frames - 1), p \in 0..1 :
        /\ ~dat.written
        /\ Cardinality(Lit) < EncMaxLit
        /\ set_pixel(u, f, p, Colour[1], Colour[2], Colour[3])
        /\ BufferFrame

EncWrite ==
    /\ write("")
    /\ WriteFrame

NextWrite ==
    \/ EncSetNumFrames
    \/ EncSetPixel
    \/ EncWrite

SpecWrite == InitWrite /\ [][NextWrite]_vars

-----------------------------------------------------------------------------
(* Properties of the pixel buffer model, checked under Spec *)

\* C1: after any sequence of add_universe, set_num_frames, set_pixel,
\* append and clear calls, successful or failing, there is one buffer per
\* universe and each buffer has num_frames frames of that universe's LED
\* count of RGB pixels.
C1_BufferDims ==
    /\ Len(pixel_data) = Len(universes)
    /\ \A i \in 1..Len(universes) :
          /\ pixel_data[i].shape = <<num_frames, universes[i], 3>>
          /\ DOMAIN pixel_data[i].data = 1..num_frames
          /\ \A f \in 1..num_frames :
                /\ DOMAIN pixel_data[i].data[f] = 1..universes[i]
                /\ \A p \in 1..universes[i] :
                      DOMAIN pixel_data[i].data[f][p] = 1..3

\* two universes of different length hold frames and the last call, an
\* append, failed after it had grown the frame count
C1_Witness ==
    /\ Len(universes) = 2
    /\ universes[1] # universes[2]
    /\ num_frames >= 1
    /\ ret.op = "append"
    /\ ret.exc = "ValueError"

\* the pixel dimension of an array handed to append
PixelDim(a) == a.shape[Len(a.shape) - 1]

\* the frames an array handed to append holds: a 2-D array is one frame
Given(a) == IF Len(a.shape) = 2 THEN <<a.data>> ELSE a.data

\* C2: append of a single 2-D (ledCount, 3) array to universe u adds exactly
\* one frame, and the new last frame of u holds the given triple of every
\* pixel.
C2_SingleFrameAppend ==
    [][\A P \in 1..2 : \A u \in 0..(Len(universes) - 1) :
          (universes[u + 1] = P /\ append(Frame2D(P), u))
              => /\ num_frames' = num_frames + 1
                 /\ pixel_data'[u + 1].data[num_frames'] = Frame2D(P).data]_vars

\* frames below min(old, new) keep their pixels in every universe
KeptFrames ==
    \A i \in 1..Len(universes) :
        \A f \in 1..Min(num_frames, num_frames') :
            pixel_data'[i].data[f] = pixel_data[i].data[f]

\* frames at or beyond the new count are gone
DiscardedFrames ==
    \A i \in 1..Len(universes) : DOMAIN pixel_data'[i].data = 1..num_frames'

\* the new frames of universe i (1-based) are black
ZeroFilled(i) ==
    \A f \in (num_frames + 1)..num_frames' :
        \A p \in 1..universes[i] : pixel_data'[i].data[f][p] = <<0, 0, 0>>

\* the new frames of universe i (1-based) are the frames of a
HoldsAppended(a, i) ==
    /\ num_frames' = num_frames + Len(Given(a))
    /\ \A k \in 1..Len(Given(a)) :
          pixel_data'[i].data[num_frames + k] = Given(a)[k]

\* the frame effect of set_num_frames(n)
ResizeEffect ==
    \A n \in 1..MaxFrames :
        (set_num_frames(n) /\ num_frames' # num_frames)
            => /\ KeptFrames
               /\ DiscardedFrames
               /\ \A i \in 1..Len(universes) : ZeroFilled(i)

\* the frame effect of append(a, u) for the arrays in inputs
AppendEffect(inputs) ==
    \A a \in inputs : \A u \in 0..(Len(universes) - 1) :
        (/\ PixelDim(a) = universes[u + 1]
         /\ append(a, u)
         /\ num_frames' # num_frames)
            => /\ KeptFrames
               /\ DiscardedFrames
               /\ \A i \in 1..Len(universes) : i # u + 1 => ZeroFilled(i)
               /\ HoldsAppended(a, u + 1)

\* C3: whenever set_num_frames or append changes the frame count from old
\* to new, frames below min(old, new) keep their pixels, frames from new on
\* are discarded and the new frames are black, except that in the universe
\* append targets they hold the appended data.
C3_FrameEffect ==
    [][ret'.op \in {"set_num_frames", "append"}
          => ResizeEffect /\ AppendEffect(AppendInputs)]_vars

\* the part of C3 that does not involve a 2-D array: resizes, and appends of
\* (F, ledCount, 3) arrays
FrameEffect3D ==
    [][ret'.op \in {"set_num_frames", "append"}
          => /\ ResizeEffect
             /\ AppendEffect({a \in AppendInputs : Len(a.shape) = 3})]_vars

\* all three indices address an existing pixel
InBounds(u, f, p) ==
    /\ 0 <= u /\ u < Len(universes)
    /\ 0 <= f /\ f < num_frames
    /\ 0 <= p /\ p < universes[u + 1]

\* the call failed with exception kind e and changed nothing
Rejected(e) == ret'.exc = e /\ UNCHANGED <<universes, num_frames, pixel_data>>

-----------------------------------------------------------------------------
(* Properties of header resolution and of the file layout, checked under   *)
(* SpecHeader                                                              *)

\* the unsigned 16-bit little-endian value at byte offset off (0-based)
LE16At(bytes, off) == bytes[off + 1] + 256 * bytes[off + 2]

\* on-disk size of one frame with its padding
Footprint ==
    LET frame_bytes == max_leds_per_port * 3 * group_size
    IN frame_bytes + ((512 - (frame_bytes % 512)) % 512)

\* the part of a written file that precedes its frames
FileHeader(bytes) == SubSeq(bytes, 1, Len(bytes) - num_frames * Footprint)

\* the template write(arg) reads: the argument, else the constructor's path
TemplateOf(arg) == IF arg # "" THEN arg ELSE template_file

\* positions of the registry entries whose slave count is the universe count
Matching ==
    {i \in 1..Len(KNOWN_HEADERS) : KNOWN_HEADERS[i][1][1] = Len(universes)}

\* the first-inserted of them
FirstInserted == CHOOSE i \in Matching : \A j \in Matching : i <= j

C6_HeaderAlways512 ==
    [][ret'.op = "write" =>
          \A arg \in WriteTemplates :
              write(arg)
                  => /\ ret'.exc = "none"
                     /\ Len(FileHeader(dat'.bytes)) = 512
                     /\ num_frames > 0 =>
                           SubSeq(dat'.bytes, 513, 512 + Len(build_frame(0)))
                               = build_frame(0)]_vars

\* C7: the template is used only if it holds 512 bytes or more (the write
\* argument before the constructor's path), and then its first 512 bytes
\* with the count patched are the header; otherwise the first-inserted
\* registry entry whose slave count equals the universe count is the
\* header, unmodified; otherwise the synthesized default with the magic
\* 00 00 48 43 is.
C7_ResolutionOrder ==
    [][ret'.op = "write" =>
          \A arg \in WriteTemplates :
              write(arg)
                  => LET tpl  == TemplateOf(arg)
                         data == IF tpl # "" THEN Files[tpl] ELSE <<>>
                     IN /\ ret'.exc = "none"
                        /\ IF Len(data) >= 512
                           THEN FileHeader(dat'.bytes) =
                                    [SubSeq(data, 1, 512) EXCEPT
                                        ![17] = controller_count % 256,
                                        ![18] = controller_count \div 256]
                           ELSE IF Matching # {}
                           THEN FileHeader(dat'.bytes) =
                                    KNOWN_HEADERS[FirstInserted][2]
                           ELSE /\ Len(FileHeader(dat'.bytes)) = 512
                                /\ SubSeq(dat'.bytes, 1, 4) = <<0, 0, 72, 67>>]_vars

\* the resolution order claimed by C7 where the template, if any, holds 512
\* bytes or more
ResolutionOrderFullTemplate ==
    [][ret'.op = "write" =>
          \A arg \in WriteTemplates :
              (/\ write(arg)
               /\ TemplateOf(arg) # "" => Len(Files[TemplateOf(arg)]) >= 512)
                  => LET tpl  == TemplateOf(arg)
                         data == IF tpl # "" THEN Files[tpl] ELSE <<>>
                     IN /\ ret'.exc = "none"
                        /\ IF tpl # ""
                           THEN FileHeader(dat'.bytes) =
                                    [SubSeq(data, 1, 512) EXCEPT
                                        ![17] = controller_count % 256,
                                        ![18] = controller_count \div 256]
                           ELSE IF Matching # {}
                           THEN FileHeader(dat'.bytes) =
                                    KNOWN_HEADERS[FirstInserted][2]
                           ELSE /\ Len(FileHeader(dat'.bytes)) = 512
                                /\ SubSeq(dat'.bytes, 1, 4) = <<0, 0, 72, 67>>]_vars

\* the layout of a written file whose frames start at offset first
LayoutFrom(bytes, val, first) ==
    LET frame_bytes == max_leds_per_port * 3 * group_size
        pad         == (512 - (frame_bytes % 512)) % 512
    IN /\ Len(bytes) = first + num_frames * (frame_bytes + pad)
       /\ val = <<first + num_frames * (frame_bytes + pad)>>
       /\ \A i \in 0..(num_frames - 1) :
             LET off == first + i * (frame_bytes + pad)
             IN /\ off % 512 = 0
                /\ SubSeq(bytes, off + 1, off + frame_bytes) = build_frame(i)
                /\ SubSeq(bytes, off + frame_bytes + 1, off + frame_bytes + pad)
                       = ZeroBytes(pad)

\* C9: write emits the header, then the frames in ascending order, each
\* followed by pad zero bytes; frame i starts at 512 + i * (frameBytes +
\* pad), a multiple of 512, and write returns 512 + frameCount *
\* (frameBytes + pad), the length of the file.
C9_FileLayout ==
    [][ret'.op = "write" =>
          \A arg \in WriteTemplates :
              (write(arg) /\ ret'.exc = "none")
                  => LayoutFrom(dat'.bytes, ret'.val, 512)]_vars

\* the layout claimed by C9 where the header is the synthesized default:
\* no template and no matching registry entry
FileLayoutDefaultHeader ==
    [][ret'.op = "write" =>
          \A arg \in WriteTemplates :
              (write(arg) /\ TemplateOf(arg) = "" /\ Matching = {})
                  => /\ ret'.exc = "none"
                     /\ LayoutFrom(dat'.bytes, ret'.val, 512)]_vars

-----------------------------------------------------------------------------
(* Properties of the frame encoder, checked under SpecWrite *)

\* groupSize as the layout rule states it
GroupSize == 8 * CeilDiv(Len(universes), 8)

\* maxLedsPerUniverse
MaxLeds ==
    IF universes = <<>> THEN 0
    ELSE LET counts == {universes[i] : i \in 1..Len(universes)}
         IN CHOOSE m \in counts : \A x \in counts : x <= m

\* the (universe, led, plane) triples of the configuration, 0-based;
\* plane 0 is Blue, 1 Green, 2 Red
Slots ==
    {t \in (0..(Len(universes) - 1)) \X (0..(MaxLeds - 1)) \X (0..2) :
        t[2] < universes[t[1] + 1]}

\* the frame offset the layout rule gives a triple
Offset(t) ==
    t[2] * 3 * GroupSize + t[3] * GroupSize + (t[1] \div 8) * 8 + (7 - (t[1] % 8))

\* the stored value of the channel that plane c carries: R, G, B are stored
\* in this order
StoredValue(frame_idx, t) ==
    pixel_data[t[1] + 1].data[frame_idx + 1][t[2] + 1][3 - t[3]]

\* C8: every encoded frame is maxLedsPerUniverse * 3 * groupSize bytes long;
\* the byte at led*3*groupSize + c*groupSize + (uid div 8)*8 + (7 - uid mod 8)
\* is gamma of the stored value of pixel led of universe uid in channel
\* plane c; distinct (uid, led, c) have distinct offsets inside the frame;
\* every other byte is zero.
C8_GroupedLayout ==
    LET slots   == Slots
        offsets == {Offset(t) : t \in slots}
    IN \A idx \in 0..(num_frames - 1) :
          LET buf == build_frame(idx) IN
          /\ Len(buf) = MaxLeds * 3 * GroupSize
          /\ \A t \in slots :
                /\ 0 <= Offset(t) /\ Offset(t) < Len(buf)
                /\ buf[Offset(t) + 1] = GAMMA_LUT[StoredValue(idx, t) + 1]
          /\ Cardinality(offsets) = Cardinality(slots)
          /\ \A i \in 0..(Len(buf) - 1) : i \notin offsets => buf[i + 1] = 0

\* a frame of nine universes, the ninth longer than the others and its
\* second pixel coloured, was written: the pixel's bytes are in the second
\* controller's block of the B, G and R planes of LED slot 1
C8_Witness ==
    /\ ret.op = "write"
    /\ ret.exc = "none"
    /\ universes = <<1, 1, 1, 1, 1, 1, 1, 1, 2>>
    /\ num_frames >= 1
    /\ pixel_data[9].data[1][2] = Colour
    /\ dat.bytes[512 + 48 + 15 + 1] = GAMMA_LUT[Colour[3] + 1]
    /\ dat.bytes[512 + 48 + 16 + 15 + 1] = GAMMA_LUT[Colour[2] + 1]
    /\ dat.bytes[512 + 48 + 32 + 15 + 1] = GAMMA_LUT[Colour[1] + 1]

\* the bytes of frame idx in the sequential layout: per universe, per LED,
\* the B, G, R values as stored
RECURSIVE SequentialFrom(_, _, _)
SequentialFrom(idx, u, p) ==
    IF u > Len(universes) THEN <<>>
    ELSE IF p > universes[u] THEN SequentialFrom(idx, u + 1, 1)
    ELSE LET rgb == pixel_data[u].data[idx + 1][p]
         IN <<rgb[3], rgb[2], rgb[1]>> \o SequentialFrom(idx, u, p + 1)

\* sum of the LED counts
SumLeds == SumTo(universes, Len(universes))

\* C10: write can lay frames out sequentially: each frame is the
\* concatenation, in universe order, of every LED's B, G, R bytes as stored,
\* sum(ledCount) * 3 bytes long, padded to a multiple of 512, and write
\* returns 512 + frameCount * ceil(sum(ledCount) * 3 / 512) * 512.
C10_SequentialLayout ==
    [][(ret'.op = "write" /\ write("") /\ ret'.exc = "none")
              => LET size == SumLeds * 3
                     foot == CeilDiv(size, 512) * 512
                 IN /\ ret'.val = <<512 + num_frames * foot>>
                    /\ Len(dat'.bytes) = 512 + num_frames * foot
                    /\ \A i \in 0..(num_frames - 1) :
                          /\ SubSeq(dat'.bytes, 512 + i * foot + 1,
                                    512 + i * foot + size)
                                 = SequentialFrom(i, 1, 1)
                          /\ SubSeq(dat'.bytes, 512 + i * foot + size + 1,
                                    512 + (i + 1) * foot)
                                 = ZeroBytes(foot - size)]_vars

=============================================================================
